---- MODULE Spec2Model ----
(***************************************************************************)
(* Triangula (src/main.go): latency-based geolocation.  The model covers   *)
(* main's probe orchestration (target probe, one goroutine per reference   *)
(* server, mutex-protected result slice, WaitGroup join, emptiness check,  *)
(* sort.Slice by delta) and the consumers displayTriangulation and         *)
(* multilateralTriangulation.                                              *)
(*                                                                         *)
(* Numbers.  time.Duration is an int64 count of nanoseconds and is kept    *)
(* as an integer count of nanoseconds.  float64 values are fixed-point or  *)
(* fractions: latitudes and longitudes are integers in units of 1e-4       *)
(* degree (the catalog gives four decimals), distances are integers in     *)
(* millimetres computed from whole microseconds and whole km/s, weights    *)
(* and weighted means are fractions <<num, den>> in lowest terms.          *)
(* Floating-point rounding is not modelled.                                *)
(***************************************************************************)
EXTENDS Integers, Sequences, FiniteSets, TLC

(* ------------------------------ bounds -------------------------------- *)

\* How many entries of the catalog the modelled run uses.
NumServers == 3

\* Largest server count requested from multilateralTriangulation by the
\* solver specification SpecSolver.
MaxRequest == 5

\* The largest catalog of the runs checked for termination.
FairServers == 2

(* ------------------------- program constants -------------------------- *)

\* speedOfLight, km/s (main.go:38 has 299792.458; the fraction is dropped).
speedOfLight == 299792

\* fiberSpeed = speedOfLight * 0.67 (main.go:39), as a percentage.
fiberPercent == 67

fiberSpeed == (speedOfLight * fiberPercent) \div 100

\* numServers := 10 in displayTriangulation (main.go:460).
TopServers == 10

\* Both solvers need at least three results (main.go:127, main.go:436).
MinResults == 3

\* for i := 0; i < 5 && i < len(results) in displayTriangulation (main.go:499).
TopDeltas == 5

\* avgDelta /= time.Duration(5) (main.go:502).
AvgDeltaDivisor == 5

NsPerMicrosecond == 1000

NsPerMillisecond == 1000000

(* ------------------------------ catalog ------------------------------- *)

\* Entries of getServerDatabase(), coordinates in 1e-4 degree.
Catalog ==
  << [Name |-> "Cloudflare", IP |-> "1.1.1.1", Country |-> "France",
      City |-> "Paris", Lat |-> 488566, Lon |-> 23522, AvgRTT |-> 0],
     [Name |-> "Google-UK", IP |-> "8.8.4.4", Country |-> "UK",
      City |-> "London", Lat |-> 515074, Lon |-> -1278, AvgRTT |-> 0],
     [Name |-> "OVH", IP |-> "54.36.0.1", Country |-> "France",
      City |-> "Paris", Lat |-> 488566, Lon |-> 23522, AvgRTT |-> 0],
     [Name |-> "Google-BR", IP |-> "216.58.222.67", Country |-> "Brazil",
      City |-> "Sao Paulo", Lat |-> -235505, Lon |-> -466333, AvgRTT |-> 0],
     [Name |-> "Hetzner", IP |-> "213.133.100.1", Country |-> "Germany",
      City |-> "Frankfurt", Lat |-> 501109, Lon |-> 86821, AvgRTT |-> 0] >>

\* The catalogs a run can be given: the first n entries, n = 0..NumServers.
Catalogs == { SubSeq(Catalog, 1, n) : n \in 0..NumServers }

Tasks == 1..NumServers

\* Average round-trip times AvgPing can report, in nanoseconds.
TargetRTTs == {1000000, 2500000}

ProbeRTTs == {400000, 2900000}

\* Target round-trip times the solvers' inputs are built from: those of a
\* run, and one that puts two deltas inside the same millisecond.
SolverTargetRTTs == TargetRTTs \cup {1700000}

(* --------------------------- small helpers ---------------------------- *)

RECURSIVE Gcd(_, _)
Gcd(a, b) == IF b = 0 THEN a ELSE Gcd(b, a % b)

AbsInt(a) == IF a < 0 THEN -a ELSE a

Lcm(a, b) == (a \div Gcd(a, b)) * b

\* A fraction <<n, d>>, d > 0, in lowest terms.
Frac(n, d) ==
  LET g == Gcd(AbsInt(n), d) IN <<n \div g, d \div g>>

FracAdd(p, q) ==
  LET l == Lcm(p[2], q[2])
  IN Frac(p[1] * (l \div p[2]) + q[1] * (l \div q[2]), l)

\* p * k for an integer k.
FracScale(p, k) ==
  LET g == Gcd(AbsInt(k), p[2]) IN Frac(p[1] * (k \div g), p[2] \div g)

\* p / q for q > 0.
FracDiv(p, q) ==
  LET l == Lcm(p[2], q[2])
  IN Frac(p[1] * (l \div p[2]), q[1] * (l \div q[2]))

\* time.Duration.Milliseconds(): whole milliseconds, truncated.
Milliseconds(d) == d \div NsPerMillisecond

\* time.Duration.Microseconds(): whole microseconds, truncated.
Microseconds(d) == d \div NsPerMicrosecond

(* -------------------------- the distance model ------------------------ *)

\* rttToDistance: seconds * fiberSpeed / 2.  Microseconds times km/s is
\* millimetres, so the result is a distance in millimetres.
rttToDistance(rtt) == (Microseconds(rtt) * fiberSpeed) \div 2

(* -------------------------------- state ------------------------------- *)

VARIABLES
  pc,             \* where main is
  servers,        \* servers := getServerDatabase()
  targetRTT,      \* targetRTT of main
  targetErr,      \* err of main: did AvgPing(targetIP, 5) fail
  next,           \* index of the range loop over servers (next to launch)
  task,           \* per goroutine: its position and its locals
  wg,             \* sync.WaitGroup counter
  mu,             \* sync.Mutex: 0 when free, else the task holding it
  results,        \* var results []Result
  progressCount,  \* progressCount of main
  numServers,     \* numServers passed to multilateralTriangulation
  loc1,           \* loc1 of displayTriangulation
  loc2,           \* loc2 of displayTriangulation / the solver's return value
  avgDelta,       \* avgDelta of displayTriangulation
  countries,      \* countries of displayStatistics, as printed
  avgRTT          \* avgRTT of displayStatistics

vars == <<pc, servers, targetRTT, targetErr, next, task, wg, mu, results,
          progressCount, numServers, loc1, loc2, avgDelta, countries, avgRTT>>

\* loc1 and loc2 hold no Location (<<>>) until one is assigned, and then
\* exactly one (<<l>>).
NoLocation == <<>>

\* Location{Lat: 0, Lon: 0}
ZeroLocation == [Lat |-> <<0, 1>>, Lon |-> <<0, 1>>]

\* A goroutine that has not been started: the zero values of its locals.
IdleTask ==
  [pc |-> "idle", server |-> [Name |-> "", IP |-> "", Country |-> "",
   City |-> "", Lat |-> 0, Lon |-> 0, AvgRTT |-> 0],
   avg |-> 0, err |-> FALSE, delta |-> 0, estimatedDistance |-> 0]

Init ==
  /\ pc = "pingTarget"
  /\ servers \in Catalogs
  /\ targetRTT = 0
  /\ targetErr = FALSE
  /\ next = 1
  /\ task = [i \in Tasks |-> IdleTask]
  /\ wg = 0
  /\ mu = 0
  /\ results = <<>>
  /\ progressCount = 0
  /\ numServers = 0
  /\ loc1 = NoLocation
  /\ loc2 = NoLocation
  /\ avgDelta = 0
  /\ countries = <<>>
  /\ avgRTT = 0

(* --------------------------- pure functions --------------------------- *)

\* Mutant of deltaOf: the negation of a negative difference is missing.
deltaOfSigned(avg, target) == avg - target

\* delta := avg - targetRTT; if delta < 0 { delta = -delta }
deltaOf(avg, target) ==
  LET delta == avg - target IN IF delta < 0 THEN -delta ELSE delta

\* results[i] of Go (0-based) is defined only for 0 <= i < len(results);
\* any other index is a run-time panic.
InRange(s, i) == 0 <= i /\ i < Len(s)

\* Mutant of SortSlice: the comparison is reversed (descending order).
SortSliceDescending(s) ==
  { p \in { [i \in 1..Len(s) |-> s[f[i]]] : f \in Permutations(1..Len(s)) } :
      \A i \in 1..(Len(s) - 1) : ~(p[i].Delta < p[i + 1].Delta) }

\* The comparison sort.Slice is given: results[i].Delta < results[j].Delta.
less(a, b) == a.Delta < b.Delta

\* sort.Slice(results, less) reorders the slice in place so that no element
\* is less than the one before it.  It is not a stable sort: which of the
\* orders that satisfy this it produces is not specified, so every one of
\* them is an outcome.
SortSlice(s) ==
  { p \in { [i \in 1..Len(s) |-> s[f[i]]] : f \in Permutations(1..Len(s)) } :
      \A i \in 1..(Len(s) - 1) : ~less(p[i + 1], p[i]) }

\* The weight of one point in trilaterate: 1.0 / (d + 1.0), d in km.
TriWeight(d) == Frac(1000000, d + 1000000)

\* trilaterate.  The weights are computed as the code computes them; the
\* trigonometry (geoToCartesian, the norm, cartesianToGeo) has no integer
\* model, so the returned Location is the term of the points and weights
\* it is computed from.
trilaterate(s1, s2, s3, d1, d2, d3) ==
  [points  |-> << <<s1.Lat, s1.Lon>>, <<s2.Lat, s2.Lon>>, <<s3.Lat, s3.Lon>> >>,
   weights |-> << TriWeight(d1), TriWeight(d2), TriWeight(d3) >>]

\* weight := 1.0 / (float64(results[i].Delta.Milliseconds()) + 1.0)
MultiWeight(delta) == Frac(1, Milliseconds(delta) + 1)

\* The for loop of multilateralTriangulation from index i on; acc holds
\* totalLat, totalLon, totalWeight, and whether an index was out of range.
RECURSIVE MultiLoop(_, _, _, _)
MultiLoop(res, n, i, acc) ==
  IF i >= n THEN acc
  ELSE IF ~InRange(res, i) THEN [acc EXCEPT !.panic = TRUE]
  ELSE LET weight == MultiWeight(res[i + 1].Delta)
       IN MultiLoop(res, n, i + 1,
            [acc EXCEPT
               !.totalLat = FracAdd(@, FracScale(weight, res[i + 1].Server.Lat)),
               !.totalLon = FracAdd(@, FracScale(weight, res[i + 1].Server.Lon)),
               !.totalWeight = FracAdd(@, weight),
               !.used = @ \cup {i}])

\* x / y of float64: 0/0 is NaN, written <<0, 0>>.
FloatDiv(p, q) == IF q[1] = 0 THEN <<0, 0>> ELSE FracDiv(p, q)

\* Mutant of multilateralTriangulation: the len(results) < 3 guard is gone.
multilateralNoGuard(res, n) ==
  LET m   == IF n > Len(res) THEN Len(res) ELSE n
      acc == MultiLoop(res, m, 0,
               [totalLat |-> <<0, 1>>, totalLon |-> <<0, 1>>,
                totalWeight |-> <<0, 1>>, used |-> {}, panic |-> FALSE])
  IN [ok   |-> ~acc.panic,
      loc  |-> [Lat |-> FloatDiv(acc.totalLat, acc.totalWeight),
                Lon |-> FloatDiv(acc.totalLon, acc.totalWeight)],
      used |-> acc.used]

\* Mutant of multilateralTriangulation: numServers is not clamped to
\* len(results).
multilateralNoClamp(res, n) ==
  IF Len(res) < MinResults
    THEN [ok |-> TRUE, loc |-> ZeroLocation, used |-> {}]
    ELSE LET acc == MultiLoop(res, n, 0,
                      [totalLat |-> <<0, 1>>, totalLon |-> <<0, 1>>,
                       totalWeight |-> <<0, 1>>, used |-> {}, panic |-> FALSE])
         IN [ok   |-> ~acc.panic,
             loc  |-> [Lat |-> FloatDiv(acc.totalLat, acc.totalWeight),
                       Lon |-> FloatDiv(acc.totalLon, acc.totalWeight)],
             used |-> acc.used]

\* multilateralTriangulation(results, numServers): [ok, loc, used], where
\* ok is FALSE when the call panics and used is the set of indices read.
multilateralTriangulation(res, n) ==
  IF Len(res) < MinResults
    THEN [ok |-> TRUE, loc |-> ZeroLocation, used |-> {}]
    ELSE LET m   == IF n > Len(res) THEN Len(res) ELSE n
             acc == MultiLoop(res, m, 0,
                      [totalLat |-> <<0, 1>>, totalLon |-> <<0, 1>>,
                       totalWeight |-> <<0, 1>>, used |-> {}, panic |-> FALSE])
         IN [ok   |-> ~acc.panic,
             loc  |-> [Lat |-> FloatDiv(acc.totalLat, acc.totalWeight),
                       Lon |-> FloatDiv(acc.totalLon, acc.totalWeight)],
             used |-> acc.used]

\* The loop of displayTriangulation that sums the deltas of the first
\* TopDeltas results (fewer when there are fewer), from index i on.
RECURSIVE SumTopDeltas(_, _, _)
SumTopDeltas(res, i, sum) ==
  IF i < TopDeltas /\ i < Len(res)
    THEN SumTopDeltas(res, i + 1, sum + res[i + 1].Delta)
    ELSE sum

\* avgDelta /= time.Duration(5)
averageDelta(res) == SumTopDeltas(res, 0, 0) \div AvgDeltaDivisor

\* countryStats[r.Server.Country]++ for every result.
countryStats(res) ==
  [c \in { res[k].Server.Country : k \in 1..Len(res) } |->
     Cardinality({ k \in 1..Len(res) : res[k].Server.Country = c })]

\* for country, count := range countryStats { countries = append(...) }:
\* Go ranges over a map in no specified order, so every order of the
\* entries is an outcome.
MapRange(m) ==
  LET n == Cardinality(DOMAIN m)
  IN { [i \in 1..n |-> [country |-> f[i], count |-> m[f[i]]]] :
         f \in { g \in [1..n -> DOMAIN m] :
                   \A i, j \in 1..n : i # j => g[i] # g[j] } }

\* sort.Slice(countries, count descending): every order of the entries in
\* which no entry has a larger count than the one before it.
SortSliceByCount(s) ==
  { p \in { [i \in 1..Len(s) |-> s[f[i]]] : f \in Permutations(1..Len(s)) } :
      \A i \in 1..(Len(s) - 1) : ~(p[i + 1].count > p[i].count) }

\* totalRTT += r.Server.AvgRTT over the first n results.
RECURSIVE totalRTT(_, _)
totalRTT(res, n) ==
  IF n = 0 THEN 0 ELSE res[n].Server.AvgRTT + totalRTT(res, n - 1)

(* -------------------------------- main -------------------------------- *)

\* Mutant of PingTarget: the return after a failed target probe is missing.
PingTargetNoReturn ==
  /\ pc = "pingTarget"
  /\ \/ /\ targetErr' = TRUE
        /\ targetRTT' = 0
     \/ \E rtt \in TargetRTTs :
          /\ targetErr' = FALSE
          /\ targetRTT' = rtt
  /\ pc' = "loop"
  /\ UNCHANGED <<servers, next, task, wg, mu, results, progressCount,
                 numServers, loc1, loc2, avgDelta, countries, avgRTT>>

\* targetRTT, err := AvgPing(targetIP, 5); if err != nil { ...; return }
PingTarget ==
  /\ pc = "pingTarget"
  /\ \/ /\ targetErr' = TRUE
        /\ targetRTT' = 0
        /\ pc' = "abortTarget"
     \/ \E rtt \in TargetRTTs :
          /\ targetErr' = FALSE
          /\ targetRTT' = rtt
          /\ pc' = "loop"
  /\ UNCHANGED <<servers, next, task, wg, mu, results, progressCount,
                 numServers, loc1, loc2, avgDelta, countries, avgRTT>>

\* One iteration of for _, s := range servers: wg.Add(1); go func(s).
Launch ==
  /\ pc = "loop"
  /\ next <= Len(servers)
  /\ wg' = wg + 1
  /\ task' = [task EXCEPT ![next] =
                [IdleTask EXCEPT !.pc = "ping", !.server = servers[next]]]
  /\ next' = next + 1
  /\ pc' = "sleep"
  /\ UNCHANGED <<servers, targetRTT, targetErr, mu, results, progressCount,
                 numServers, loc1, loc2, avgDelta, countries, avgRTT>>

\* time.Sleep(10 * time.Millisecond) between two launches.
Sleep ==
  /\ pc = "sleep"
  /\ pc' = "loop"
  /\ UNCHANGED <<servers, targetRTT, targetErr, next, task, wg, mu, results,
                 progressCount, numServers, loc1, loc2, avgDelta, countries,
                 avgRTT>>

\* The range loop is over.
LoopExit ==
  /\ pc = "loop"
  /\ next > Len(servers)
  /\ pc' = "wait"
  /\ UNCHANGED <<servers, targetRTT, targetErr, next, task, wg, mu, results,
                 progressCount, numServers, loc1, loc2, avgDelta, countries,
                 avgRTT>>

\* Mutant of Wait: main does not wait for the counter to reach zero.
WaitNoJoin ==
  /\ pc = "wait"
  /\ pc' = "check"
  /\ UNCHANGED <<servers, targetRTT, targetErr, next, task, wg, mu, results,
                 progressCount, numServers, loc1, loc2, avgDelta, countries,
                 avgRTT>>

\* wg.Wait() returns when the counter is zero.
Wait ==
  /\ pc = "wait"
  /\ wg = 0
  /\ pc' = "check"
  /\ UNCHANGED <<servers, targetRTT, targetErr, next, task, wg, mu, results,
                 progressCount, numServers, loc1, loc2, avgDelta, countries,
                 avgRTT>>

\* Mutant of CheckEmpty: the return on an empty result slice is missing.
CheckEmptyNoReturn ==
  /\ pc = "check"
  /\ pc' = "sort"
  /\ UNCHANGED <<servers, targetRTT, targetErr, next, task, wg, mu, results,
                 progressCount, numServers, loc1, loc2, avgDelta, countries,
                 avgRTT>>

\* if len(results) == 0 { ...; return }
CheckEmpty ==
  /\ pc = "check"
  /\ pc' = IF Len(results) = 0 THEN "abortEmpty" ELSE "sort"
  /\ UNCHANGED <<servers, targetRTT, targetErr, next, task, wg, mu, results,
                 progressCount, numServers, loc1, loc2, avgDelta, countries,
                 avgRTT>>

\* sort.Slice(results, func(i, j) bool { return results[i].Delta < results[j].Delta })
Sort ==
  /\ pc = "sort"
  /\ results' \in SortSlice(results)
  /\ pc' = "displayResults"
  /\ UNCHANGED <<servers, targetRTT, targetErr, next, task, wg, mu,
                 progressCount, numServers, loc1, loc2, avgDelta, countries,
                 avgRTT>>

\* displayResults prints and changes nothing.
DisplayResults ==
  /\ pc = "displayResults"
  /\ pc' = "displayTriangulation"
  /\ UNCHANGED <<servers, targetRTT, targetErr, next, task, wg, mu, results,
                 progressCount, numServers, loc1, loc2, avgDelta, countries,
                 avgRTT>>

\* displayTriangulation(results)
DisplayTriangulation ==
  /\ pc = "displayTriangulation"
  /\ IF Len(results) < MinResults
       THEN /\ pc' = "displayStatistics"
            /\ UNCHANGED <<numServers, loc1, loc2, avgDelta>>
       ELSE IF ~(InRange(results, 0) /\ InRange(results, 1) /\ InRange(results, 2))
         THEN /\ pc' = "panic"
              /\ UNCHANGED <<numServers, loc1, loc2, avgDelta>>
         ELSE LET n == IF Len(results) < TopServers THEN Len(results)
                       ELSE TopServers
                  r == multilateralTriangulation(results, n)
              IN /\ loc1' = << trilaterate(results[1].Server, results[2].Server,
                                           results[3].Server, results[1].Distance,
                                           results[2].Distance, results[3].Distance) >>
                 /\ numServers' = n
                 /\ IF r.ok
                      THEN /\ loc2' = <<r.loc>>
                           /\ avgDelta' = averageDelta(results)
                           /\ pc' = "displayStatistics"
                      ELSE /\ loc2' = loc2
                           /\ avgDelta' = avgDelta
                           /\ pc' = "panic"
  /\ UNCHANGED <<servers, targetRTT, targetErr, next, task, wg, mu, results,
                 progressCount, countries, avgRTT>>

\* displayStatistics(results), then main returns.
DisplayStatistics ==
  /\ pc = "displayStatistics"
  /\ IF Len(results) = 0
       THEN UNCHANGED <<countries, avgRTT>>
       ELSE /\ countries' \in
                 UNION { SortSliceByCount(c) : c \in MapRange(countryStats(results)) }
            /\ avgRTT' = totalRTT(results, Len(results)) \div Len(results)
  /\ pc' = "done"
  /\ UNCHANGED <<servers, targetRTT, targetErr, next, task, wg, mu, results,
                 progressCount, numServers, loc1, loc2, avgDelta>>

(* --------------------------- one probe task --------------------------- *)

\* avg, err := AvgPing(server.IP, 3); on an error the goroutine goes for
\* the lock to count the failure.
TaskPing(i) ==
  /\ task[i].pc = "ping"
  /\ \/ task' = [task EXCEPT ![i].err = TRUE, ![i].pc = "lock"]
     \/ \E rtt \in ProbeRTTs :
          task' = [task EXCEPT ![i].avg = rtt, ![i].pc = "compute"]
  /\ UNCHANGED <<pc, servers, targetRTT, targetErr, next, wg, mu, results,
                 progressCount, numServers, loc1, loc2, avgDelta, countries,
                 avgRTT>>

\* Mutant of TaskCompute: the task works on the catalog entry itself instead
\* of on its copy, so the measured latency is written into the catalog.
TaskComputeShared(i) ==
  /\ task[i].pc = "compute"
  /\ LET delta == deltaOf(task[i].avg, targetRTT)
     IN task' = [task EXCEPT ![i].server.AvgRTT = task[i].avg,
                             ![i].delta = delta,
                             ![i].estimatedDistance = rttToDistance(delta),
                             ![i].pc = "lock"]
  /\ servers' = [servers EXCEPT ![i].AvgRTT = task[i].avg]
  /\ UNCHANGED <<pc, targetRTT, targetErr, next, wg, mu, results,
                 progressCount, numServers, loc1, loc2, avgDelta, countries,
                 avgRTT>>

\* server.AvgRTT = avg; delta := |avg - targetRTT|;
\* estimatedDistance := rttToDistance(delta)
TaskCompute(i) ==
  /\ task[i].pc = "compute"
  /\ LET delta == deltaOf(task[i].avg, targetRTT)
     IN task' = [task EXCEPT ![i].server.AvgRTT = task[i].avg,
                             ![i].delta = delta,
                             ![i].estimatedDistance = rttToDistance(delta),
                             ![i].pc = "lock"]
  /\ UNCHANGED <<pc, servers, targetRTT, targetErr, next, wg, mu, results,
                 progressCount, numServers, loc1, loc2, avgDelta, countries,
                 avgRTT>>

\* Mutant of TaskLock: the lock is taken without waiting for it to be free.
TaskLockNoExclusion(i) ==
  /\ task[i].pc = "lock"
  /\ mu' = i
  /\ task' = [task EXCEPT ![i].pc = IF task[i].err THEN "count" ELSE "append"]
  /\ UNCHANGED <<pc, servers, targetRTT, targetErr, next, wg, results,
                 progressCount, numServers, loc1, loc2, avgDelta, countries,
                 avgRTT>>

\* mu.Lock(), on the error path and on the success path.
TaskLock(i) ==
  /\ task[i].pc = "lock"
  /\ mu = 0
  /\ mu' = i
  /\ task' = [task EXCEPT ![i].pc = IF task[i].err THEN "count" ELSE "append"]
  /\ UNCHANGED <<pc, servers, targetRTT, targetErr, next, wg, results,
                 progressCount, numServers, loc1, loc2, avgDelta, countries,
                 avgRTT>>

\* Mutant of TaskAppend: the slice is assigned instead of appended to.
TaskAppendOverwrite(i) ==
  /\ task[i].pc = "append"
  /\ results' = << [Server   |-> task[i].server,
                    Delta    |-> task[i].delta,
                    Distance |-> task[i].estimatedDistance] >>
  /\ task' = [task EXCEPT ![i].pc = "count"]
  /\ UNCHANGED <<pc, servers, targetRTT, targetErr, next, wg, mu,
                 progressCount, numServers, loc1, loc2, avgDelta, countries,
                 avgRTT>>

\* results = append(results, Result{server, delta, estimatedDistance})
TaskAppend(i) ==
  /\ task[i].pc = "append"
  /\ results' = Append(results, [Server   |-> task[i].server,
                                 Delta    |-> task[i].delta,
                                 Distance |-> task[i].estimatedDistance])
  /\ task' = [task EXCEPT ![i].pc = "count"]
  /\ UNCHANGED <<pc, servers, targetRTT, targetErr, next, wg, mu,
                 progressCount, numServers, loc1, loc2, avgDelta, countries,
                 avgRTT>>

\* progressCount++ and the progress line.
TaskCount(i) ==
  /\ task[i].pc = "count"
  /\ progressCount' = progressCount + 1
  /\ task' = [task EXCEPT ![i].pc = "unlock"]
  /\ UNCHANGED <<pc, servers, targetRTT, targetErr, next, wg, mu, results,
                 numServers, loc1, loc2, avgDelta, countries, avgRTT>>

\* mu.Unlock()
TaskUnlock(i) ==
  /\ task[i].pc = "unlock"
  /\ mu' = 0
  /\ task' = [task EXCEPT ![i].pc = "exit"]
  /\ UNCHANGED <<pc, servers, targetRTT, targetErr, next, wg, results,
                 progressCount, numServers, loc1, loc2, avgDelta, countries,
                 avgRTT>>

\* Mutant of TaskDone: wg.Done() is called at the end of the success path
\* instead of being deferred, so a failed probe returns without it.
TaskDoneNotDeferred(i) ==
  /\ task[i].pc = "exit"
  /\ wg' = IF task[i].err THEN wg ELSE wg - 1
  /\ task' = [task EXCEPT ![i].pc = "done"]
  /\ UNCHANGED <<pc, servers, targetRTT, targetErr, next, mu, results,
                 progressCount, numServers, loc1, loc2, avgDelta, countries,
                 avgRTT>>

\* The deferred wg.Done() as the goroutine returns.
TaskDone(i) ==
  /\ task[i].pc = "exit"
  /\ wg' = wg - 1
  /\ task' = [task EXCEPT ![i].pc = "done"]
  /\ UNCHANGED <<pc, servers, targetRTT, targetErr, next, mu, results,
                 progressCount, numServers, loc1, loc2, avgDelta, countries,
                 avgRTT>>

Next ==
  \/ PingTarget
  \/ Launch
  \/ Sleep
  \/ LoopExit
  \/ Wait
  \/ CheckEmpty
  \/ Sort
  \/ DisplayResults
  \/ DisplayTriangulation
  \/ DisplayStatistics
  \/ \E i \in Tasks : TaskPing(i)
  \/ \E i \in Tasks : TaskCompute(i)
  \/ \E i \in Tasks : TaskLock(i)
  \/ \E i \in Tasks : TaskAppend(i)
  \/ \E i \in Tasks : TaskCount(i)
  \/ \E i \in Tasks : TaskUnlock(i)
  \/ \E i \in Tasks : TaskDone(i)

Spec == Init /\ [][Next]_vars

\* The steps of the main goroutine other than displayTriangulation, and the
\* steps of probe goroutine i.
MainStep ==
  \/ PingTarget \/ Launch \/ Sleep \/ LoopExit \/ Wait \/ CheckEmpty \/ Sort
  \/ DisplayResults \/ DisplayStatistics

TaskStep(i) ==
  \/ TaskPing(i) \/ TaskCompute(i) \/ TaskLock(i) \/ TaskAppend(i)
  \/ TaskCount(i) \/ TaskUnlock(i) \/ TaskDone(i)

\* Weak fairness of DisplayTriangulation, with its enabling condition
\* written out: the call can be made exactly when main has reached it.
DisplayTriangulationFair ==
  \/ []<>(pc # "displayTriangulation")
  \/ []<><<DisplayTriangulation>>_vars

\* The Go scheduler runs every runnable goroutine again and again; AvgPing
\* returns because each ping is bounded by its timeout.
Fairness ==
  /\ WF_vars(MainStep)
  /\ DisplayTriangulationFair
  /\ \A i \in Tasks : WF_vars(TaskStep(i))

\* The runs over the catalogs of at most FairServers nodes.
InitFair == Init /\ Len(servers) <= FairServers

SpecFair == InitFair /\ [][Next]_vars /\ Fairness

(* ------------------- the solvers on any ranked input ------------------ *)

\* The goroutine of node i after it returned: its probe failed, or it
\* reported the RTT out.
FinishedTask(cat, i, failed, out, target) ==
  IF i > Len(cat) THEN IdleTask
  ELSE IF failed
    THEN [IdleTask EXCEPT !.pc = "done", !.server = cat[i], !.err = TRUE]
    ELSE [pc |-> "done", server |-> [cat[i] EXCEPT !.AvgRTT = out],
          avg |-> out, err |-> FALSE, delta |-> deltaOf(out, target),
          estimatedDistance |-> rttToDistance(deltaOf(out, target))]

\* What the finished goroutines appended, in catalog order.
RECURSIVE Collected(_, _)
Collected(t, n) ==
  IF n = 0 THEN <<>>
  ELSE IF t[n].pc = "done" /\ ~t[n].err
    THEN Append(Collected(t, n - 1),
                [Server |-> t[n].server, Delta |-> t[n].delta,
                 Distance |-> t[n].estimatedDistance])
    ELSE Collected(t, n - 1)

\* Every state main can hand to a solver: a finished fan-out and its
\* results sorted by sort.Slice (of any length, 0 included), about to be
\* given to displayTriangulation or to multilateralTriangulation alone.
InitSolver ==
  /\ servers \in Catalogs
  /\ targetRTT \in SolverTargetRTTs
  /\ targetErr = FALSE
  /\ next = Len(servers) + 1
  /\ \E failed \in SUBSET Tasks, out \in [Tasks -> ProbeRTTs] :
       task = [i \in Tasks |->
                 FinishedTask(servers, i, i \in failed, out[i], targetRTT)]
  /\ wg = 0
  /\ mu = 0
  /\ results \in SortSlice(Collected(task, NumServers))
  /\ progressCount = Len(servers)
  /\ numServers = 0
  /\ loc1 = NoLocation
  /\ loc2 = NoLocation
  /\ avgDelta = 0
  /\ countries = <<>>
  /\ avgRTT = 0
  /\ pc \in {"displayTriangulation", "callMultilateral"}

\* loc := multilateralTriangulation(results, n) for any requested n >= 1.
MultilateralCall ==
  /\ pc = "callMultilateral"
  /\ \E n \in 1..MaxRequest :
       LET r == multilateralTriangulation(results, n)
       IN /\ numServers' = n
          /\ IF r.ok
               THEN loc2' = <<r.loc>> /\ pc' = "returned"
               ELSE loc2' = loc2 /\ pc' = "panic"
  /\ UNCHANGED <<servers, targetRTT, targetErr, next, task, wg, mu, results,
                 progressCount, loc1, avgDelta, countries, avgRTT>>

NextSolver ==
  \/ MultilateralCall
  \/ DisplayTriangulation

SpecSolver == InitSolver /\ [][NextSolver]_vars

(* ------------------------------- claims ------------------------------- *)

\* Positions of main after wg.Wait() has returned.
AfterJoin ==
  {"check", "abortEmpty", "sort", "displayResults", "displayTriangulation",
   "displayStatistics", "done", "panic"}

\* Positions of main after sort.Slice has returned.
AfterSort ==
  {"displayResults", "displayTriangulation", "displayStatistics", "done",
   "panic"}

Launched == 1..Len(servers)

\* The nodes whose probe returned an error, so far.
FailedNodes == { i \in Launched : task[i].err }

\* The nodes whose goroutine has executed its append.
AppendedNodes ==
  { i \in Launched : ~task[i].err /\ task[i].pc \in {"count", "unlock", "exit", "done"} }

\* How many Measurements of node i the result collection holds.
CountFor(i) ==
  Cardinality({ k \in 1..Len(results) : results[k].Server.Name = servers[i].Name })

\* C1: with K of the N probes failing, once all tasks have finished the
\* result collection holds exactly N-K Measurements, one for every node
\* whose probe succeeded and none for a node whose probe failed; at every
\* moment each node that has appended has exactly one Measurement in the
\* collection (a failure removes or replaces nothing), and with K < N the
\* run does not stop on the empty-result condition.
C1_PartialFailure ==
  /\ \A i \in Launched : CountFor(i) = IF i \in AppendedNodes THEN 1 ELSE 0
  /\ pc \in AfterJoin =>
       /\ Len(results) = Len(servers) - Cardinality(FailedNodes)
       /\ \A i \in Launched : CountFor(i) = IF task[i].err THEN 0 ELSE 1
       /\ Cardinality(FailedNodes) < Len(servers) => pc # "abortEmpty"

\* C1 witness: the join is passed with a failed probe of one node and the
\* Measurement of a node launched after it.
C1_Witness ==
  /\ pc = "sort"
  /\ FailedNodes # {}
  /\ Len(results) >= 1
  /\ \E i \in FailedNodes, j \in Launched : j > i /\ CountFor(j) = 1

\* C2: when the probe of the target fails the run ends at once: main is at
\* its early return, no probe task was launched, the result collection is
\* empty and nothing was ranked, solved or summarised.
C2_TargetFailureAborts ==
  /\ targetErr =>
       /\ pc = "abortTarget"
       /\ next = 1
       /\ wg = 0
       /\ \A i \in Tasks : task[i] = IdleTask
       /\ results = <<>>
       /\ progressCount = 0
       /\ loc1 = NoLocation /\ loc2 = NoLocation
  /\ pc = "abortTarget" => targetErr

\* C2 witness: main has returned after a failed target probe, with a
\* catalog that has nodes to probe.
C2_Witness == pc = "abortTarget" /\ targetErr /\ Len(servers) >= 1

\* C3: wherever main is past wg.Wait() (the emptiness check, the sort, the
\* three consumers, either return), every launched probe task has finished,
\* the whole catalog was launched, the counter is zero and nobody holds the
\* lock, so nothing is appending.
C3_JoinAfterAllTasks ==
  pc \in AfterJoin =>
    /\ next = Len(servers) + 1
    /\ \A i \in Launched : task[i].pc = "done"
    /\ wg = 0
    /\ mu = 0
    /\ progressCount = Len(servers)

\* C3 witness: main is at the emptiness check after tasks that succeeded
\* and tasks that failed.
C3_Witness ==
  /\ pc = "check"
  /\ Len(servers) >= 2
  /\ FailedNodes # {}
  /\ results # <<>>

\* C4: when the target answered and no reference probe succeeded (an empty
\* catalog included) main stops at the empty-result return after the join:
\* the sort and the consumers are reached only with a non-empty collection,
\* no Location is computed, and this return is not the target-unreachable
\* return.
C4_EmptyResult ==
  /\ pc \in (AfterJoin \ {"check"}) /\ results = <<>> => pc = "abortEmpty"
  /\ pc = "abortEmpty" =>
       /\ ~targetErr
       /\ results = <<>>
       /\ \A i \in Launched : task[i].pc = "done" /\ task[i].err
       /\ numServers = 0
       /\ loc1 = NoLocation /\ loc2 = NoLocation
  /\ pc \in {"sort"} \cup AfterSort => Len(results) >= 1

\* C4 witness: main returned on the empty-result condition after every
\* probe of a non-empty catalog failed.
C4_Witness ==
  /\ pc = "abortEmpty"
  /\ Len(servers) >= 2
  /\ \A i \in Launched : task[i].err

\* C4 witness for the empty catalog.
C4_WitnessEmptyCatalog == pc = "abortEmpty" /\ Len(servers) = 0

\* How often x occurs in the sequence s.
Occurrences(s, x) == Cardinality({ k \in 1..Len(s) : s[k] = x })

\* t holds the elements of s, each as often as s does.
IsPermutation(s, t) ==
  /\ Len(s) = Len(t)
  /\ \A k \in 1..Len(s) : Occurrences(t, s[k]) = Occurrences(s, s[k])

Ascending(s) == \A k \in 1..(Len(s) - 1) : s[k].Delta <= s[k + 1].Delta

\* C5: the sort turns the collection of the join into a permutation of it
\* (nothing added, dropped or duplicated) that ascends by delta, and the
\* collection stays in that order for every consumer.
C5_RankedSet ==
  /\ [][pc = "sort" => IsPermutation(results, results') /\ Ascending(results')]_vars
  /\ [](pc \in AfterSort => Ascending(results))

\* C5 witness: the sort has returned a collection of at least two
\* Measurements with different deltas.
C5_Witness ==
  /\ pc = "displayResults"
  /\ Len(results) >= 2
  /\ results[1].Delta < results[Len(results)].Delta

\* The place in the catalog of the node a Measurement is about.
CatalogIndex(r) == CHOOSE i \in Launched : servers[i].Name = r.Server.Name

\* C6 as claimed: after the sort, of two Measurements with equal delta the
\* one whose node is earlier in the catalog is earlier in the RankedSet.
C6_TiesByCatalogOrder ==
  pc \in AfterSort =>
    \A a, b \in 1..Len(results) :
      a < b /\ results[a].Delta = results[b].Delta
        => CatalogIndex(results[a]) < CatalogIndex(results[b])

\* The place of the Measurement r in the sequence s.
PlaceIn(s, r) == CHOOSE k \in 1..Len(s) : s[k] = r

\* C7 as claimed: the sort is stable, two Measurements with equal delta
\* leave it in the relative order in which they entered it.
C7_SortIsStable ==
  [][pc = "sort" =>
       \A a, b \in 1..Len(results) :
         a < b /\ results[a].Delta = results[b].Delta
           => PlaceIn(results', results[a]) < PlaceIn(results', results[b])]_vars

\* |a - b|, without a subtraction that can go negative.
Distance1D(a, b) == IF a >= b THEN a - b ELSE b - a

\* C10: every Measurement in the result collection is the catalog entry of
\* its node with the latency field set to the RTT that node's own probe
\* returned, its delta is the absolute difference between that RTT and the
\* target RTT, delta >= 0 and distance >= 0; and no step changes or drops a
\* Measurement that is in the collection.
C10_MeasurementInvariant ==
  /\ [](\A k \in 1..Len(results) :
          LET r == results[k]
              i == CatalogIndex(r)
          IN /\ r.Server = [servers[i] EXCEPT !.AvgRTT = task[i].avg]
             /\ r.Delta = Distance1D(task[i].avg, targetRTT)
             /\ r.Delta >= 0
             /\ r.Distance >= 0)
  /\ [][\A k \in 1..Len(results) :
          Occurrences(results', results[k]) = Occurrences(results, results[k])]_vars

\* C10 witness: the collection holds a Measurement of a node that answered
\* faster than the target and one of a node that answered slower.
C10_Witness ==
  /\ \E k \in 1..Len(results) : results[k].Server.AvgRTT < targetRTT
  /\ \E k \in 1..Len(results) : results[k].Server.AvgRTT > targetRTT

C8_WitnessDisplay == pc = "displayStatistics" /\ Len(results) = 1

\* The weight of one entry as specified: 1 / (delta in whole ms + 1), over
\* the common denominator den.
RECURSIVE WeightProduct(_, _)
WeightProduct(s, k) ==
  IF k = 0 THEN 1
  ELSE ((s[k].Delta \div NsPerMillisecond) + 1) * WeightProduct(s, k - 1)

ScaledWeight(s, k, j) ==
  WeightProduct(s, k) \div ((s[j].Delta \div NsPerMillisecond) + 1)

RECURSIVE WeightedSum(_, _, _, _)
WeightedSum(s, k, j, coord) ==
  IF j = 0 THEN 0
  ELSE (IF coord = "Lat" THEN s[j].Server.Lat
        ELSE IF coord = "Lon" THEN s[j].Server.Lon ELSE 1) * ScaledWeight(s, k, j)
       + WeightedSum(s, k, j - 1, coord)

\* The weighted arithmetic mean of a coordinate over the first k entries,
\* in lowest terms.
WeightedMean(s, k, coord) ==
  LET n == WeightedSum(s, k, k, coord)
      d == WeightedSum(s, k, k, "One")
      g == Gcd(AbsInt(n), d)
  IN <<n \div g, d \div g>>

Min(a, b) == IF a <= b THEN a ELSE b

\* C9: on a RankedSet of length L >= 3 and a requested count N >= 1,
\* multilateralTriangulation reads exactly the first min(N, L) entries,
\* never an index >= L (it does not panic), and returns the weighted
\* arithmetic mean of their latitudes and longitudes with weight
\* 1/(delta in ms + 1) per entry.
C9_Multilateration ==
  /\ Len(results) >= MinResults => pc # "panic"
  /\ pc = "returned" /\ Len(results) >= MinResults =>
       LET k == Min(numServers, Len(results))
       IN /\ multilateralTriangulation(results, numServers).used = 0..(k - 1)
          /\ loc2 = << [Lat |-> WeightedMean(results, k, "Lat"),
                        Lon |-> WeightedMean(results, k, "Lon")] >>

\* C9 witness: a call that asked for fewer entries than there are, on
\* entries of different weight.
C9_Witness ==
  /\ pc = "returned"
  /\ Len(results) >= MinResults
  /\ numServers = 2
  /\ Milliseconds(results[1].Delta) # Milliseconds(results[2].Delta)

\* C9 witness: a call that asked for more entries than there are.
C9_WitnessClamped ==
  /\ pc = "returned"
  /\ Len(results) >= MinResults
  /\ numServers > Len(results)

\* p < q for fractions p, q >= 0, by whole parts and then by the
\* reciprocals of the remainders, which stays within the integers' range.
RECURSIVE FracLess(_, _)
FracLess(p, q) ==
  LET ip == p[1] \div p[2]
      iq == q[1] \div q[2]
      rp == p[1] % p[2]
      rq == q[1] % q[2]
  IN IF ip # iq THEN ip < iq
     ELSE IF rq = 0 THEN FALSE
     ELSE IF rp = 0 THEN TRUE
     ELSE FracLess(<<q[2], rq>>, <<p[2], rp>>)

\* C11 as claimed: in both solvers a strictly smaller distance
\* (trilaterate) or delta (multilateralTriangulation) gives a strictly
\* larger weight: once a solver has run, of any two candidates the one with
\* the smaller distance has the larger trilateration weight and the one
\* with the smaller delta has the larger multilateration weight.
C11_WeightMonotone ==
  pc \in {"returned", "displayStatistics"} =>
  \A a, b \in 1..Len(results) :
    /\ results[a].Distance < results[b].Distance
         => FracLess(TriWeight(results[b].Distance), TriWeight(results[a].Distance))
    /\ results[a].Delta < results[b].Delta
         => FracLess(MultiWeight(results[b].Delta), MultiWeight(results[a].Delta))

RECURSIVE SumCounts(_, _)
SumCounts(c, n) == IF n = 0 THEN 0 ELSE c[n].count + SumCounts(c, n - 1)

RECURSIVE SumLatencies(_, _)
SumLatencies(s, n) ==
  IF n = 0 THEN 0 ELSE s[n].Server.AvgRTT + SumLatencies(s, n - 1)

\* Where in the RankedSet a country is first encountered.
FirstEncounter(c) ==
  CHOOSE k \in 1..Len(results) :
    /\ results[k].Server.Country = c
    /\ \A j \in 1..(k - 1) : results[j].Server.Country # c

\* C12 as claimed: after displayStatistics on a non-empty RankedSet the
\* per-country counts sum to the number of Measurements, are listed in
\* descending order of count with countries of equal count in the order in
\* which the RankedSet first encounters them, and the mean latency is the
\* sum of the latencies over their number (in whole nanoseconds); on an
\* empty RankedSet nothing is computed.
C12_Summarize ==
  pc = "done" =>
    IF results = <<>>
      THEN countries = <<>> /\ avgRTT = 0
      ELSE /\ SumCounts(countries, Len(countries)) = Len(results)
           /\ \A i \in 1..(Len(countries) - 1) :
                countries[i].count >= countries[i + 1].count
           /\ \A i, j \in 1..Len(countries) :
                i < j /\ countries[i].count = countries[j].count
                  => FirstEncounter(countries[i].country)
                       < FirstEncounter(countries[j].country)
           /\ avgRTT = SumLatencies(results, Len(results)) \div Len(results)

\* Task i is between its mu.Lock() and its mu.Unlock().
InSection(i) == task[i].pc \in {"append", "count", "unlock"}

\* The tasks that have executed progressCount++.
CountedNodes == { i \in Launched : task[i].pc \in {"unlock", "exit", "done"} }

\* C13: at most one task is inside the append/increment section, and it is
\* the task that holds the lock; every change of the result collection by a
\* task and every change of the progress counter is a step of the lock
\* holder; no append and no increment is lost.
C13_MutualExclusion ==
  /\ [](/\ Cardinality({ i \in Tasks : InSection(i) }) <= 1
        /\ \A i \in Tasks : InSection(i) <=> mu = i
        /\ Len(results) = Cardinality(AppendedNodes)
        /\ progressCount = Cardinality(CountedNodes))
  /\ [][(results' # results /\ pc # "sort") \/ progressCount' # progressCount
          => mu \in Tasks /\ InSection(mu) /\ task'[mu] # task[mu]]_vars

\* C13 witness: one task is appending under the lock while another has
\* its Measurement ready and waits for the lock.
C13_Witness ==
  \E i, j \in Tasks :
    /\ i # j
    /\ mu = i /\ task[i].pc = "append"
    /\ task[j].pc = "lock" /\ ~task[j].err

\* Task i has assigned server.AvgRTT = avg on its copy.
HasLatency(i) ==
  ~task[i].err /\ task[i].pc \in {"lock", "append", "count", "unlock", "exit", "done"}

\* C14: no step changes the catalog: during the fan-out and after the join
\* it is the catalog that was loaded, every latency field still 0; each
\* launched task holds its own copy of its node, which differs from the
\* catalog entry only by the latency that task measured, and that latency
\* appears in the collection only in that node's Measurement.
C14_CatalogUnchanged ==
  /\ [][servers' = servers]_vars
  /\ [](/\ servers \in Catalogs
        /\ \A i \in Launched : servers[i].AvgRTT = 0
        /\ \A i \in Launched :
             task[i].pc # "idle" =>
               task[i].server = IF HasLatency(i)
                                  THEN [servers[i] EXCEPT !.AvgRTT = task[i].avg]
                                  ELSE servers[i]
        /\ \A k \in 1..Len(results) :
             results[k].Server.AvgRTT = task[CatalogIndex(results[k])].avg)

\* C14 witness: a task has written a latency on its copy and appended it
\* while another task still holds an unmeasured copy.
C14_Witness ==
  \E i, j \in Launched :
    /\ i # j
    /\ task[i].pc = "done" /\ task[i].server.AvgRTT > 0
    /\ CountFor(i) = 1
    /\ task[j].pc = "ping"
    /\ servers[i].AvgRTT = 0

\* The states in which main has returned.
Returned == {"done", "abortEmpty", "abortTarget"}

\* C15: once the target probe has succeeded, under fair scheduling all the
\* tasks of the catalog are launched, every launched task signals completion
\* whether its probe failed or succeeded, the join is passed and main
\* returns; a sleeping main and a task waiting for the lock always get on.
C15_Termination ==
  (pc = "loop") ~> (/\ pc \in Returned
                    /\ next > Len(servers)
                    /\ wg = 0
                    /\ mu = 0
                    /\ \A i \in 1..Len(servers) : task[i].pc = "done")

\* C15 witness: main has returned after a run with a failed and a succeeded
\* probe, every task done and the counter back at zero.
C15_Witness ==
  /\ pc = "done"
  /\ wg = 0
  /\ next > Len(servers)
  /\ \A i \in Launched : task[i].pc = "done"
  /\ FailedNodes # {}
  /\ AppendedNodes # {}

\* The sum of the deltas of the first k entries of a RankedSet.
RECURSIVE DeltaSum(_, _)
DeltaSum(res, k) == IF k = 0 THEN 0 ELSE DeltaSum(res, k - 1) + res[k].Delta

\* C16: once displayTriangulation has run on a RankedSet of length L >= 3,
\* the reported average delta is the sum of the first min(5, L) deltas
\* divided by min(5, L).
C16_AverageDelta ==
  pc \in {"displayStatistics", "done"} /\ Len(results) >= MinResults =>
    avgDelta = DeltaSum(results, Min(TopDeltas, Len(results)))
                 \div Min(TopDeltas, Len(results))

====
